---- MODULE Spec2Model ----
(***************************************************************************)
(* A model of sync_scripts.py: the metadata extractor                      *)
(* (parse_powershell_metadata), the local-record builder and remote lookup *)
(* (sync_script), the change-plan printer (log_change_plan) and the batch  *)
(* walk (main).                                                            *)
(*                                                                         *)
(* Script texts are sequences of one-character strings, so that the        *)
(* regular expressions of the source are modelled by what they match,      *)
(* character by character, with Python's greedy / lazy / backtracking      *)
(* priorities.  Python dicts are TLA+ functions whose DOMAIN is the set of *)
(* keys present; d.get(k, default) is get(d, k, default).                  *)
(***************************************************************************)
EXTENDS Integers, Sequences, FiniteSets, TLC

(***************************************************************************)
(* Python values and string primitives                                     *)
(***************************************************************************)

\* Python's None (a value distinct from every string the model builds).
NoneVal == "<None>"

\* The characters of a string, as a sequence of one-character strings.
Chars(s) == [i \in 1..Len(s) |-> SubSeq(s, i, i)]

RECURSIVE Str(_)
\* The string spelled by a sequence of characters.
Str(cs) == IF cs = <<>> THEN "" ELSE Head(cs) \o Str(Tail(cs))

Min(S) == CHOOSE x \in S : \A y \in S : x <= y

Max(S) == CHOOSE x \in S : \A y \in S : x >= y

Range(f) == {f[i] : i \in DOMAIN f}

ascii_lowercase == Chars("abcdefghijklmnopqrstuvwxyz")

ascii_uppercase == Chars("ABCDEFGHIJKLMNOPQRSTUVWXYZ")

\* Code-point order of the word characters (digits < upper case < "_" < lower case).
WordOrder == Chars("0123456789ABCDEFGHIJKLMNOPQRSTUVWXYZ_abcdefghijklmnopqrstuvwxyz")

\* The regex class \s (over the characters the model's texts use).
Space == {" ", "\t", "\n", "\r"}

\* The regex class \w.
Word == Range(WordOrder)

\* str.lower() on one character.
lower(c) ==
    IF \E i \in 1..26 : ascii_uppercase[i] = c
    THEN ascii_lowercase[CHOOSE i \in 1..26 : ascii_uppercase[i] = c]
    ELSE c

\* str.upper() on one character.
upper(c) ==
    IF \E i \in 1..26 : ascii_lowercase[i] = c
    THEN ascii_uppercase[CHOOSE i \in 1..26 : ascii_lowercase[i] = c]
    ELSE c

LowerAll(cs) == [i \in 1..Len(cs) |-> lower(cs[i])]

UpperAll(cs) == [i \in 1..Len(cs) |-> upper(cs[i])]

\* A greedy run X* of a character class: the first index at or after i whose
\* character is outside S (Len(t)+1 when the run reaches the end).
SkipIn(t, i, S) ==
    CHOOSE j \in i..(Len(t) + 1) :
        /\ \A k \in i..(j - 1) : t[k] \in S
        /\ (j = Len(t) + 1 \/ t[j] \notin S)

\* A greedy run [^...]* of a negated class.
SkipNotIn(t, i, S) ==
    CHOOSE j \in i..(Len(t) + 1) :
        /\ \A k \in i..(j - 1) : t[k] \notin S
        /\ (j = Len(t) + 1 \/ t[j] \in S)

\* A literal of a (?i) pattern matches at index i of t.
LitAt(t, i, lit) ==
    /\ i >= 1
    /\ i + Len(lit) - 1 <= Len(t)
    /\ \A k \in 1..Len(lit) : lower(t[i + k - 1]) = lower(Chars(lit)[k])

\* str.strip(chars): drop leading and trailing characters of S.
strip(cs, S) ==
    LET Keep == {i \in 1..Len(cs) : cs[i] \notin S}
    IN  IF Keep = {} THEN <<>> ELSE SubSeq(cs, Min(Keep), Max(Keep))

RECURSIVE split(_, _)
\* str.split(sep) for a one-character separator: always at least one piece.
split(cs, sep) ==
    LET Seps == {i \in 1..Len(cs) : cs[i] = sep}
    IN  IF Seps = {} THEN <<cs>>
        ELSE <<SubSeq(cs, 1, Min(Seps) - 1)>>
                 \o split(SubSeq(cs, Min(Seps) + 1, Len(cs)), sep)

\* v named once: With(v, LAMBDA x : e) is e with v for x.
With(v, F(_)) == F(v)

\* dict.get(k, default)
get(d, k, default) == IF k \in DOMAIN d THEN d[k] ELSE default

(***************************************************************************)
(* parse_powershell_metadata                                               *)
(***************************************************************************)

\* One attempt of r'(?i)#\s*<keyword>\s*([\w\s,]+)' at index i: <<>> when it
\* fails, else <<group(1)>>.  \s* is greedy and gives one character back when
\* the class [\w\s,]+ would otherwise be empty.
directive_at(content, keyword, i) ==
    IF content[i] # "#" THEN <<>>
    ELSE With(SkipIn(content, i + 1, Space), LAMBDA j :
         IF ~LitAt(content, j, keyword) THEN <<>>
         ELSE With(SkipIn(content, j + Len(keyword), Space), LAMBDA m :
              With(SkipIn(content, m, Word \cup Space \cup {","}), LAMBDA e :
                  IF e > m THEN <<SubSeq(content, m, e - 1)>>
                  ELSE IF m > j + Len(keyword) THEN <<SubSeq(content, m - 1, m - 1)>>
                  ELSE <<>>)))

\* re.search(r'(?i)#\s*<keyword>\s*([\w\s,]+)', content): the leftmost match.
directive_match(content, keyword) ==
    With({i \in 1..Len(content) : directive_at(content, keyword, i) # <<>>},
         LAMBDA Starts :
             IF Starts = {} THEN <<>>
             ELSE directive_at(content, keyword, Min(Starts)))

\* [o.strip().upper() for o in group.split(',')]
directive_tokens(group) ==
    With(split(group, ","), LAMBDA pieces :
        [n \in 1..Len(pieces) |-> Str(UpperAll(strip(pieces[n], Space)))])

\* The indexes after index i where "#>" starts.
closes_after(content, i) ==
    {j \in (i + 2)..Len(content) : LitAt(content, j, "#>")}

\* re.search(r'<#([\s\S]*?)#>', content): <<>> or <<group(1)>>.
help_block(content) ==
    With({i \in 1..Len(content) :
              LitAt(content, i, "<#") /\ closes_after(content, i) # {}},
         LAMBDA Opens :
             IF Opens = {} THEN <<>>
             ELSE <<SubSeq(content, Min(Opens) + 2,
                           Min(closes_after(content, Min(Opens))) - 1)>>)

\* \r?\n at index e: the index after it, or 0.
newline_at(t, e) ==
    IF e <= Len(t) /\ t[e] = "\n" THEN e + 1
    ELSE IF e + 1 <= Len(t) /\ t[e] = "\r" /\ t[e + 1] = "\n" THEN e + 2
    ELSE 0

\* The lookahead (?=\r?\n\s*\.|\r?\n\s*#>|\Z) holds at index e of t.
section_end(t, e) ==
    \/ e = Len(t) + 1
    \/ With(newline_at(t, e), LAMBDA nl :
           /\ nl > 0
           /\ With(SkipIn(t, nl, Space), LAMBDA s :
                  LitAt(t, s, ".") \/ LitAt(t, s, "#>")))

\* The lazy group ([\s\S]*?) followed by the lookahead: the first index at or
\* after s where the lookahead holds.
lazy_section(t, s) == Min({e \in s..(Len(t) + 1) : section_end(t, e)})

\* re.search(r'(?i)\.DESCRIPTION\s+([\s\S]*?)(?=...)', help_text): <<>> or
\* <<group(1)>>.
desc_match(help_text) ==
    With({i \in 1..Len(help_text) :
              /\ LitAt(help_text, i, ".DESCRIPTION")
              /\ SkipIn(help_text, i + 12, Space) > i + 12},
         LAMBDA Starts :
             IF Starts = {} THEN <<>>
             ELSE With(SkipIn(help_text, Min(Starts) + 12, Space), LAMBDA s :
                      <<SubSeq(help_text, s, lazy_section(help_text, s) - 1)>>))

\* metadata["description"] after the help-block section.
description_of(content) ==
    With(help_block(content), LAMBDA hb :
        IF hb = <<>> THEN ""
        ELSE With(desc_match(hb[1]), LAMBDA dm :
                 IF dm = <<>> THEN "" ELSE Str(strip(dm[1], Space))))

\* One attempt of r'(?i)\.PARAMETER\s+(\w+)\s+([\s\S]*?)(?=...)' at index i.
param_help_at(help_text, i) ==
    IF ~LitAt(help_text, i, ".PARAMETER") THEN [ok |-> FALSE]
    ELSE With(SkipIn(help_text, i + 10, Space), LAMBDA b :
         With(SkipIn(help_text, b, Word), LAMBDA c :
         With(SkipIn(help_text, c, Space), LAMBDA d :
             IF b > i + 10 /\ c > b /\ d > c
             THEN With(lazy_section(help_text, d), LAMBDA e :
                      [ok |-> TRUE, name |-> SubSeq(help_text, b, c - 1),
                       text |-> SubSeq(help_text, d, e - 1), end |-> e])
             ELSE [ok |-> FALSE])))

RECURSIVE param_helps_from(_, _, _)
\* The loop over re.finditer(...) filling param_helps, scanning from index
\* `from`; a later entry for the same lower-cased name replaces the earlier.
param_helps_from(help_text, from, acc) ==
    With({i \in from..Len(help_text) : param_help_at(help_text, i).ok},
         LAMBDA Starts :
             IF Starts = {} THEN acc
             ELSE With(param_help_at(help_text, Min(Starts)), LAMBDA m :
                      param_helps_from(help_text, m.end,
                          (Str(LowerAll(m.name)) :> Str(strip(m.text, Space))) @@ acc)))

\* param_helps after the help-block section.
param_helps(content) ==
    With(help_block(content), LAMBDA hb :
        IF hb = <<>> THEN <<>> ELSE param_helps_from(hb[1], 1, <<>>))

\* The indexes of ")" after index i.
parens_after(content, i) == {j \in (i + 1)..Len(content) : content[j] = ")"}

\* The index of "(" after r'(?i)param\s*' matched at index i.
param_open(content, i) == SkipIn(content, i + 5, Space)

\* re.search(r'(?i)param\s*\(([\s\S]*?)\)', content): <<>> or <<group(1)>>;
\* the lazy group ends at the first ")" after the opening parenthesis.
param_block(content) ==
    With({i \in 1..Len(content) :
              /\ LitAt(content, i, "param")
              /\ LitAt(content, param_open(content, i), "(")
              /\ parens_after(content, param_open(content, i)) # {}},
         LAMBDA Starts :
             IF Starts = {} THEN <<>>
             ELSE With(param_open(content, Min(Starts)), LAMBDA open :
                      <<SubSeq(content, open + 1, Min(parens_after(content, open)) - 1)>>))

\* One iteration of (?:\[[^\]]+\]\s*) at index i: the index after it, or 0.
attribute_end(p, i) ==
    IF i <= Len(p) /\ p[i] = "["
    THEN With(SkipNotIn(p, i + 1, {"]"}), LAMBDA c :
             IF c > i + 1 /\ c <= Len(p) THEN SkipIn(p, c + 1, Space) ELSE 0)
    ELSE 0

RECURSIVE attribute_ends(_, _)
\* The indexes after 0, 1, ..., n iterations of the attribute group from i.
attribute_ends(p, i) ==
    With(attribute_end(p, i), LAMBDA e :
        <<i>> \o (IF e > 0 THEN attribute_ends(p, e) ELSE <<>>))

\* (?:\[(\w+)\]\s*) at index i.
type_tag_at(p, i) ==
    IF i <= Len(p) /\ p[i] = "["
    THEN With(SkipIn(p, i + 1, Word), LAMBDA w :
             IF w > i + 1 /\ w <= Len(p) /\ p[w] = "]"
             THEN [ok |-> TRUE, word |-> SubSeq(p, i + 1, w - 1),
                   end |-> SkipIn(p, w + 1, Space)]
             ELSE [ok |-> FALSE])
    ELSE [ok |-> FALSE]

\* \$(\w+) at index i.
name_at(p, i) ==
    IF i <= Len(p) /\ p[i] = "$"
    THEN With(SkipIn(p, i + 1, Word), LAMBDA e :
             IF e > i + 1
             THEN [ok |-> TRUE, name |-> SubSeq(p, i + 1, e - 1), end |-> e]
             ELSE [ok |-> FALSE])
    ELSE [ok |-> FALSE]

\* The characters a default value stops at: [^,\r\n\)]
DefaultStop == {",", "\r", "\n", ")"}

\* (?:\s*=\s*([^,\r\n\)]+))? at index q: group 4 (<<>> for None) and the
\* index after the match.  The second \s* is greedy and gives characters back
\* until the default starts on a character the class accepts.
default_at(p, q) ==
    With(SkipIn(p, q, Space), LAMBDA a :
        IF a <= Len(p) /\ p[a] = "="
        THEN With({g \in (a + 1)..SkipIn(p, a + 1, Space) :
                       g <= Len(p) /\ p[g] \notin DefaultStop},
                  LAMBDA G :
                      IF G = {} THEN [group4 |-> <<>>, end |-> q]
                      ELSE With(SkipNotIn(p, Max(G), DefaultStop), LAMBDA e :
                               [group4 |-> <<SubSeq(p, Max(G), e - 1)>>, end |-> e]))
        ELSE [group4 |-> <<>>, end |-> q])

\* The rest of param_pattern once the attribute group (ending before index
\* e) and the type tag (group2) are fixed: the name at index n, then the
\* optional default.
pattern_rest(p, i, e, group2, n) ==
    With(name_at(p, n), LAMBDA nm :
    With(default_at(p, nm.end), LAMBDA df :
        [ok |-> TRUE, group1 |-> SubSeq(p, i, e - 1), group2 |-> group2,
         group3 |-> nm.name, group4 |-> df.group4, end |-> df.end]))

\* param_pattern from index i with the attribute group ending before index
\* e: the optional type tag is tried first, then skipped.
pattern_try(p, i, e) ==
    With(type_tag_at(p, e), LAMBDA tt :
        IF tt.ok /\ name_at(p, tt.end).ok
        THEN pattern_rest(p, i, e, <<tt.word>>, tt.end)
        ELSE IF name_at(p, e).ok
        THEN pattern_rest(p, i, e, <<>>, e)
        ELSE [ok |-> FALSE])

\* param_pattern at index i, in the engine's order: the attribute group as
\* many times as possible, fewer iterations only when the rest fails.
param_pattern_at(p, i) ==
    With(attribute_ends(p, i), LAMBDA ends :
    With({k \in 1..Len(ends) : pattern_try(p, i, ends[k]).ok}, LAMBDA Ks :
        IF Ks = {} THEN [ok |-> FALSE] ELSE pattern_try(p, i, ends[Max(Ks)])))

RECURSIVE param_matches(_, _)
\* re.finditer(param_pattern, params_text) from index `from`: the matches in
\* source order, non-overlapping.
param_matches(p, from) ==
    With({i \in from..Len(p) : param_pattern_at(p, i).ok}, LAMBDA Starts :
        IF Starts = {} THEN <<>>
        ELSE With(param_pattern_at(p, Min(Starts)), LAMBDA m :
                 <<m>> \o param_matches(p, m.end)))

type_map ==
    [int |-> "INTEGER", string |-> "TEXT", bool |-> "CHECKBOX",
     switch |-> "CHECKBOX", decimal |-> "DECIMAL", double |-> "DECIMAL",
     float |-> "DECIMAL", datetime |-> "DATETIME"]

\* re.search(r'(?i)Mandatory\s*=\s*\$true', attributes) finds a match.
mandatory_in(attributes) ==
    \E i \in 1..Len(attributes) :
        /\ LitAt(attributes, i, "Mandatory")
        /\ With(SkipIn(attributes, i + 9, Space), LAMBDA j :
               /\ LitAt(attributes, j, "=")
               /\ LitAt(attributes, SkipIn(attributes, j + 1, Space), "$true"))

\* p_type_raw of one match.
p_type_raw_of(m) ==
    IF m.group2 # <<>> THEN Str(LowerAll(m.group2[1])) ELSE "string"

\* p_default of one match: group 4 stripped of blanks, then of quotes.
p_default_of(m) ==
    IF m.group4 = <<>> THEN NoneVal
    ELSE Str(strip(strip(m.group4[1], Space), {"'", "\""}))

\* The body of `for m in matches`: the variable dict built from one match;
\* the key defaultValue is present only when a default was matched.
variable_of(m, helps) ==
    With([name |-> Str(m.group3),
          description |-> get(helps, Str(LowerAll(m.group3)),
                              "Variable " \o Str(m.group3)),
          type |-> get(type_map, p_type_raw_of(m), "TEXT"),
          required |-> mandatory_in(m.group1),
          source |-> "LITERAL"],
         LAMBDA variable :
             IF m.group4 # <<>>
             THEN ("defaultValue" :> p_default_of(m)) @@ variable
             ELSE variable)

\* metadata["variables"] after the param-block section.
variables_of(content) ==
    With(param_block(content), LAMBDA pb :
        IF pb = <<>> THEN <<>>
        ELSE With(param_matches(pb[1], 1), LAMBDA ms :
             With(param_helps(content), LAMBDA helps :
                 [n \in 1..Len(ms) |-> variable_of(ms[n], helps)])))

\* The upper-cased tokens of the first directive line of a keyword.
directive_list(content, keyword) ==
    With(directive_match(content, keyword), LAMBDA dm :
        IF dm = <<>> THEN <<>> ELSE directive_tokens(dm[1]))

parse_powershell_metadata(content) ==
    [description |-> description_of(content),
     variables |-> variables_of(content),
     operatingSystems |-> directive_list(content, "NINJA_OS:"),
     architecture |-> directive_list(content, "NINJA_ARCH:")]

(***************************************************************************)
(* log_change_plan                                                         *)
(***************************************************************************)

Ord(c) == CHOOSE i \in 1..Len(WordOrder) : WordOrder[i] = c

RECURSIVE str_lt(_, _)
\* Python's < on two strings (given as character sequences): code-point
\* lexicographic order.
str_lt(a, b) ==
    IF b = <<>> THEN FALSE
    ELSE IF a = <<>> THEN TRUE
    ELSE IF a[1] = b[1] THEN str_lt(Tail(a), Tail(b))
    ELSE Ord(a[1]) < Ord(b[1])

\* h placed in the sorted list rest, before the entries whose name is not
\* smaller than h's.
insert_by_name(h, rest) ==
    With(Cardinality({i \in 1..Len(rest) :
                         str_lt(Chars(rest[i].name), Chars(h.name))}),
         LAMBDA k : SubSeq(rest, 1, k) \o <<h>> \o SubSeq(rest, k + 1, Len(rest)))

RECURSIVE sorted_by_name(_)
\* sorted(vs, key=lambda x: x['name']): a stable sort, so entries of equal
\* name keep their input order.
sorted_by_name(vs) ==
    IF vs = <<>> THEN <<>>
    ELSE insert_by_name(Head(vs), sorted_by_name(Tail(vs)))

\* The projection of one variable inside normalize_vars.
normalize_var(v) ==
    [name |-> get(v, "name", NoneVal),
     description |-> get(v, "description", NoneVal),
     type |-> get(v, "type", NoneVal),
     required |-> get(v, "required", FALSE),
     defaultValue |-> get(v, "defaultValue", NoneVal)]

normalize_vars(variables) ==
    sorted_by_name([i \in 1..Len(variables) |-> normalize_var(variables[i])])

\* The keys of a normalized variable, in dict insertion order.
var_keys == <<"name", "description", "type", "required", "defaultValue">>

\* What print(f"{value}") shows for the value stored under a key.
py_str(key, v) ==
    IF key = "required" THEN (IF v THEN "True" ELSE "False")
    ELSE IF v = NoneVal THEN "None" ELSE v

\* {v['name']: v for v in vars}, read with .get(name): the last entry of that
\* name, or <<>> for None.
vars_map_get(vars, name) ==
    With({i \in 1..Len(vars) : vars[i].name = name}, LAMBDA Is :
        IF Is = {} THEN <<>> ELSE <<vars[Max(Is)]>>)

\* The "- key: before" / "+ key: after" pairs printed under one MODIFY line.
modify_changes(l_var, r_var) ==
    LET pick[n \in 0..Len(var_keys)] ==
            IF n = 0 THEN <<>>
            ELSE IF l_var[var_keys[n]] # r_var[var_keys[n]]
                 THEN Append(pick[n - 1],
                             [key |-> var_keys[n],
                              before |-> py_str(var_keys[n], r_var[var_keys[n]]),
                              after |-> py_str(var_keys[n], l_var[var_keys[n]])])
                 ELSE pick[n - 1]
    IN  pick[Len(var_keys)]

\* What one pass of `for l_var in local_vars` prints.
local_line(l_var, remote_vars) ==
    With(vars_map_get(remote_vars, l_var.name), LAMBDA r_var :
        IF r_var = <<>>
        THEN <<[kind |-> "ADD", name |-> l_var.name, details |-> l_var]>>
        ELSE IF l_var # r_var[1]
        THEN <<[kind |-> "MODIFY", name |-> l_var.name,
                changes |-> modify_changes(l_var, r_var[1])]>>
        ELSE <<>>)

\* The lines printed by `for l_var in local_vars`.
local_loop(local_vars, remote_vars) ==
    LET acc[n \in 0..Len(local_vars)] ==
            IF n = 0 THEN <<>>
            ELSE acc[n - 1] \o local_line(local_vars[n], remote_vars)
    IN  acc[Len(local_vars)]

\* The lines printed by `for r_var in remote_vars`.
remote_loop(local_vars, remote_vars) ==
    LET acc[n \in 0..Len(remote_vars)] ==
            IF n = 0 THEN <<>>
            ELSE IF vars_map_get(local_vars, remote_vars[n].name) = <<>>
                 THEN Append(acc[n - 1],
                             [kind |-> "REMOVE", name |-> remote_vars[n].name])
                 ELSE acc[n - 1]
    IN  acc[Len(remote_vars)]

\* The parameter lines printed under `if local_vars != remote_vars`.
parameter_entries(local_vars, remote_vars) ==
    IF local_vars # remote_vars
    THEN local_loop(local_vars, remote_vars) \o remote_loop(local_vars, remote_vars)
    ELSE <<>>

\* The description block: absent, or one CURRENT / PROPOSED pair.
description_diff(local, remote) ==
    IF get(local, "description", NoneVal) # get(remote, "description", NoneVal)
    THEN <<[current |-> get(remote, "description", ""),
            proposed |-> get(local, "description", "")]>>
    ELSE <<>>

\* What log_change_plan(local, remote) prints: the description block, the
\* fixed code note, whether the SCRIPT PARAMETERS header is printed, and the
\* parameter lines in order.
log_change_plan(local, remote) ==
    With(normalize_vars(get(local, "scriptVariables", <<>>)), LAMBDA local_vars :
    With(normalize_vars(get(remote, "scriptVariables", <<>>)), LAMBDA remote_vars :
        [script_name |-> local.name,
         description |-> description_diff(local, remote),
         code_note |-> TRUE,
         parameters_header |-> local_vars # remote_vars,
         entries |-> parameter_entries(local_vars, remote_vars)]))

(***************************************************************************)
(* sync_script                                                             *)
(***************************************************************************)

\* os.path.splitext on a base name: <<root, ext>>; the extension starts at
\* the last dot unless only dots precede it.
splitext(file_name) ==
    With(Chars(file_name), LAMBDA cs :
    With({i \in 1..Len(cs) : cs[i] = "."}, LAMBDA Dots :
        IF Dots = {} \/ \A i \in 1..(Max(Dots) - 1) : cs[i] = "."
        THEN <<file_name, "">>
        ELSE <<Str(SubSeq(cs, 1, Max(Dots) - 1)), Str(SubSeq(cs, Max(Dots), Len(cs)))>>))

script_name_of(file_name) == splitext(file_name)[1]

extension_of(file_name) == Str(LowerAll(Chars(splitext(file_name)[2])))

language_map ==
    (".ps1" :> "powershell") @@ (".sh" :> "shell")
        @@ (".bat" :> "batch") @@ (".cmd" :> "batch")

\* metadata_of with the extension test dropped: every file goes through the
\* extractor.
metadata_of_always_parsed(file_name, script_text) ==
    parse_powershell_metadata(script_text)

\* metadata = parse_powershell_metadata(script_text) if extension == '.ps1' else {}
metadata_of(file_name, script_text) ==
    IF extension_of(file_name) = ".ps1"
    THEN parse_powershell_metadata(script_text)
    ELSE <<>>

\* next((s for s in existing_scripts_list if s['name'] == script_name), None):
\* the first record of that name, <<>> for None.
existing_script_of(script_name, existing_scripts_list) ==
    With({i \in 1..Len(existing_scripts_list) :
              existing_scripts_list[i].name = script_name},
         LAMBDA Is : IF Is = {} THEN <<>> ELSE <<existing_scripts_list[Min(Is)]>>)

architectures_of(metadata) ==
    With(Range(get(metadata, "architecture", <<>>)), LAMBDA tokens :
        (IF "X86" \in tokens THEN <<"32">> ELSE <<>>)
            \o (IF "AMD64" \in tokens THEN <<"64">> ELSE <<>>))

operating_systems_of(metadata) ==
    With(Range(get(metadata, "operatingSystems", <<>>)), LAMBDA tokens :
        (IF "WINDOWS" \in tokens THEN <<"Windows">> ELSE <<>>)
            \o (IF "MAC" \in tokens THEN <<"Mac">> ELSE <<>>)
            \o (IF "LINUX" \in tokens THEN <<"Linux">> ELSE <<>>))

script_variables_of(metadata) ==
    With(get(metadata, "variables", <<>>), LAMBDA vs :
        [n \in 1..Len(vs) |->
            [name |-> vs[n].name,
             description |-> get(vs[n], "description", ""),
             type |-> get(vs[n], "type", "TEXT"),
             source |-> "LITERAL",
             defaultValue |-> get(vs[n], "defaultValue", NoneVal),
             required |-> get(vs[n], "required", FALSE),
             valueList |-> <<>>]])

\* local_payload; the base64 text of the body is kept as a tagged value, it
\* is never decoded or compared.
local_payload(file_name, script_text, metadata) ==
    [name |-> script_name_of(file_name),
     description |-> get(metadata, "description", "From " \o file_name),
     language |-> language_map[extension_of(file_name)],
     operatingSystems |-> operating_systems_of(metadata),
     architecture |-> architectures_of(metadata),
     code |-> [b64encode |-> script_text],
     scriptVariables |-> script_variables_of(metadata)]

\* What sync_script prints for a readable file of a known extension: the
\* comparison plan against existing_script (<<r>>), or the creation plan
\* when existing_script is None (<<>>).
sync_output(file_name, script_text, existing_script) ==
    With(metadata_of(file_name, script_text), LAMBDA metadata :
    With(local_payload(file_name, script_text, metadata), LAMBDA local :
        IF existing_script # <<>>
        THEN [file |-> file_name, kind |-> "COMPARE", metadata |-> metadata,
              local |-> local, remote |-> existing_script[1],
              plan |-> log_change_plan(local, existing_script[1])]
        ELSE [file |-> file_name, kind |-> "NEW", metadata |-> metadata,
              local |-> local]))

(***************************************************************************)
(* main: the state machine                                                 *)
(***************************************************************************)

VARIABLES
    pc,                \* where main is: "start", "walk", "done", an exit, or "crashed"
    files,             \* the walk of the scripts directory: file name, readability, text
    existing_scripts,  \* the list returned by get_scripts
    idx,               \* the position of the walk in files
    outcomes           \* what each completed sync_script call printed, in order

vars == <<pc, files, existing_scripts, idx, outcomes>>

\* Bounds of the input families.
MaxFiles == 2

MaxRemote == 2

MaxDecls == 2

MaxRemoteVars == 2

\* The ids of a remote list are those of distinct registry records.
DistinctIds(scripts) ==
    \A i, j \in 1..Len(scripts) : scripts[i].id = scripts[j].id => i = j

RECURSIVE SeqsUpTo(_, _)
\* The sequences over S of length at most n.
SeqsUpTo(S, n) ==
    IF n = 0 THEN {<<>>}
    ELSE LET shorter == SeqsUpTo(S, n - 1)
         IN  shorter \cup {Append(s, x) : s \in shorter, x \in S}

\* A script text that carries every kind of annotation.
AnnotatedText ==
    "# NINJA_OS: Linux, Windows\n# NINJA_ARCH: amd64\n"
        \o "<#\n.DESCRIPTION\n  Counts things\n.PARAMETER Count\n  How many\n#>\n"
        \o "param([int]$Count = 5)\nWrite-Host $Count\n"

\* Remote variable records as the registry returns them.
RemoteCount ==
    [name |-> "Count", description |-> "How many", type |-> "INTEGER",
     required |-> FALSE, defaultValue |-> "5", source |-> "LITERAL",
     valueList |-> <<>>]

RemoteA ==
    [name |-> "A", description |-> "Variable A", type |-> "TEXT",
     required |-> FALSE, source |-> "LITERAL"]

RemoteA1 == ("defaultValue" :> "1") @@ RemoteA

RemoteB ==
    [name |-> "B", description |-> "Variable B", type |-> "TEXT",
     required |-> TRUE, source |-> "LITERAL"]

RemoteC == [name |-> "C", type |-> "CHECKBOX"]

\* ---- the batch family: several files, few texts ----

BatchFiles ==
    {[file_name |-> "a.ps1", readable |-> TRUE, text |-> Chars(AnnotatedText)],
     [file_name |-> "a.ps1", readable |-> FALSE, text |-> Chars(AnnotatedText)],
     [file_name |-> "a.sh", readable |-> TRUE, text |-> Chars(AnnotatedText)],
     [file_name |-> "b.CMD", readable |-> TRUE, text |-> Chars(AnnotatedText)],
     [file_name |-> "c.txt", readable |-> TRUE, text |-> Chars(AnnotatedText)]}

BatchRemote ==
    {[id |-> 1, name |-> "a", description |-> "Counts things",
      scriptVariables |-> <<RemoteCount>>],
     [id |-> 2, name |-> "a", description |-> "From a.sh",
      scriptVariables |-> <<>>],
     [id |-> 3, name |-> "b", description |-> "old",
      scriptVariables |-> <<RemoteCount, RemoteC>>]}

Init ==
    /\ pc = "start"
    /\ files \in SeqsUpTo(BatchFiles, MaxFiles) \ {<<>>}
    /\ existing_scripts \in {r \in SeqsUpTo(BatchRemote, MaxRemote) : DistinctIds(r)}
    /\ idx = 1
    /\ outcomes = <<>>

\* ---- the parser family: one file, many texts ----

OsLines ==
    {"", "# NINJA_OS: Linux, Windows\n", "# ninja_os: mac,FreeBSD , windows\n",
     "#NINJA_OS:LINUX\n\n"}

ArchLines == {"", "# NINJA_ARCH: amd64, x86\n", "# NINJA_ARCH: arm64\n"}

HelpBlocks ==
    {"", "<#\n.DESCRIPTION\n  Counts things\n.PARAMETER count\n  How many\n#>\n"}

ParamBlocks ==
    {"",
     "param([int]$Count = 5)\n",
     "param( [Parameter(Mandatory=$true)][string]$Target )\n",
     "param(\n  [string]$Target,\n  [bool]$Target = 'yes'\n)\n",
     "Param ([Mandatory = $true][DateTime]$When, $Count = \"7\")\n",
     "param($Count, [switch]$Force)\n"}

Bodies == {"", "Write-Host hi\n"}

\* The texts made of one OS line, one architecture line, one help block, one
\* param block and one body, each taken from a set of alternatives.
TextsOf(Os, As, Hs, Ps, Bs) ==
    {Chars(o \o a \o h \o p \o b) :
        o \in Os, a \in As, h \in Hs, p \in Ps, b \in Bs}

ParseTexts == TextsOf(OsLines, ArchLines, HelpBlocks, ParamBlocks, Bodies)

ParseRemote ==
    {[id |-> 7, name |-> "s", description |-> "Counts things",
      scriptVariables |-> <<RemoteCount>>]}

InitParse ==
    /\ pc = "start"
    /\ files \in {<<f>> : f \in [file_name : {"s.ps1", "s.sh", "s.txt"},
                                 readable : BOOLEAN,
                                 text : ParseTexts]}
    /\ existing_scripts \in SeqsUpTo(ParseRemote, 1)
    /\ idx = 1
    /\ outcomes = <<>>

\* ---- the diff family: one script, many local and remote variable lists ----

Decls == {"$A", "$B", "$A = 1", "[Mandatory = $true]$B"}

RECURSIVE join(_, _)
\* sep.join(pieces)
join(pieces, sep) ==
    IF pieces = <<>> THEN ""
    ELSE IF Len(pieces) = 1 THEN pieces[1]
    ELSE pieces[1] \o sep \o join(Tail(pieces), sep)

DiffTexts == {Chars("param(" \o join(ds, ", ") \o ")\n") : ds \in SeqsUpTo(Decls, MaxDecls)}

DiffRemoteVars == {RemoteA, RemoteA1, RemoteB, RemoteC}

\* A registry record lists each variable name once.
UniqueNames(vs) == \A i, j \in 1..Len(vs) : vs[i].name = vs[j].name => i = j

DiffRemote ==
    [id : {9}, name : {"d"}, description : {"", "old"},
     scriptVariables : {vs \in SeqsUpTo(DiffRemoteVars, MaxRemoteVars) : UniqueNames(vs)}]

InitDiff ==
    /\ pc = "start"
    /\ files \in {<<f>> : f \in [file_name : {"d.ps1"}, readable : {TRUE},
                                 text : DiffTexts]
                              \cup [file_name : {"d.ps1", "d.md"}, readable : BOOLEAN,
                                    text : {Chars("param($A)\n")}]}
    /\ existing_scripts \in SeqsUpTo(DiffRemote, 1)
    /\ idx = 1
    /\ outcomes = <<>>

\* ---- main ----

\* A required environment variable is not set: sys.exit(1).
MainConfigMissing ==
    /\ pc = "start"
    /\ pc' = "exit_config"
    /\ UNCHANGED <<files, existing_scripts, idx, outcomes>>

\* get_token or get_scripts raises RequestException: sys.exit(1).
MainApiError ==
    /\ pc = "start"
    /\ pc' = "exit_api"
    /\ UNCHANGED <<files, existing_scripts, idx, outcomes>>

\* The scripts directory is missing: sys.exit(1).
MainNoScriptsDir ==
    /\ pc = "start"
    /\ pc' = "exit_no_dir"
    /\ UNCHANGED <<files, existing_scripts, idx, outcomes>>

\* Authentication, the fetch of the remote list and the directory test
\* succeed; the walk starts.
MainScan ==
    /\ pc = "start"
    /\ pc' = "walk"
    /\ UNCHANGED <<files, existing_scripts, idx, outcomes>>

\* sync_script on the current file: the extension is not in language_map.
SyncSkip ==
    /\ pc = "walk" /\ idx <= Len(files)
    /\ extension_of(files[idx].file_name) \notin DOMAIN language_map
    /\ outcomes' = Append(outcomes, [file |-> files[idx].file_name, kind |-> "SKIPPED"])
    /\ idx' = idx + 1
    /\ UNCHANGED <<pc, files, existing_scripts>>

\* sync_script on the current file: open() or read() raises (OSError,
\* UnicodeDecodeError).  Neither sync_script nor main catches it: the
\* exception leaves main and the process ends with a traceback.
SyncReadError ==
    /\ pc = "walk" /\ idx <= Len(files)
    /\ extension_of(files[idx].file_name) \in DOMAIN language_map
    /\ ~files[idx].readable
    /\ pc' = "crashed"
    /\ UNCHANGED <<files, existing_scripts, idx, outcomes>>

\* sync_script on the current file: a remote record of that name exists, the
\* comparison plan is printed against the first such record.
SyncCompare ==
    /\ pc = "walk" /\ idx <= Len(files)
    /\ extension_of(files[idx].file_name) \in DOMAIN language_map
    /\ files[idx].readable
    /\ \E existing_script \in
           {existing_script_of(script_name_of(files[idx].file_name), existing_scripts)} :
           /\ existing_script # <<>>
           /\ outcomes' = Append(outcomes,
                  sync_output(files[idx].file_name, files[idx].text, existing_script))
    /\ idx' = idx + 1
    /\ UNCHANGED <<pc, files, existing_scripts>>

\* sync_script on the current file: no remote record of that name, the
\* creation plan is printed.
SyncNew ==
    /\ pc = "walk" /\ idx <= Len(files)
    /\ extension_of(files[idx].file_name) \in DOMAIN language_map
    /\ files[idx].readable
    /\ existing_script_of(script_name_of(files[idx].file_name), existing_scripts) = <<>>
    /\ outcomes' = Append(outcomes,
           sync_output(files[idx].file_name, files[idx].text, <<>>))
    /\ idx' = idx + 1
    /\ UNCHANGED <<pc, files, existing_scripts>>

\* The walk has no more files: main returns.
WalkDone ==
    /\ pc = "walk" /\ idx > Len(files)
    /\ pc' = "done"
    /\ UNCHANGED <<files, existing_scripts, idx, outcomes>>

Next ==
    \/ MainConfigMissing
    \/ MainApiError
    \/ MainNoScriptsDir
    \/ MainScan
    \/ SyncSkip
    \/ SyncReadError
    \/ SyncCompare
    \/ SyncNew
    \/ WalkDone

Spec == Init /\ [][Next]_vars

SpecParse == InitParse /\ [][Next]_vars

SpecDiff == InitDiff /\ [][Next]_vars

(***************************************************************************)
(* Properties                                                              *)
(***************************************************************************)

\* The files sync_script does not skip.
Supported(f) == extension_of(f.file_name) \in DOMAIN language_map

\* The outcomes of files that went through the metadata and plan sections.
Processed == {i \in 1..Len(outcomes) : outcomes[i].kind \in {"COMPARE", "NEW"}}

Compared == {i \in 1..Len(outcomes) : outcomes[i].kind = "COMPARE"}

\* The names of a variable list.
NamesOf(vs) == {vs[n].name : n \in 1..Len(vs)}

\* How many entries of a kind a plan has for a name.
Count(entries, kind, name) ==
    Cardinality({k \in 1..Len(entries) :
                    entries[k].kind = kind /\ entries[k].name = name})

\* The variables of a name in a normalized list.
Named(vs, name) == {n \in 1..Len(vs) : vs[n].name = name}

\* The keys on which two normalized variables differ.
DifferingKeys(l_var, r_var) ==
    {var_keys[n] : n \in {m \in 1..Len(var_keys) : l_var[var_keys[m]] # r_var[var_keys[m]]}}

\* The orders in which a list can be given.
Reorderings(vs) ==
    {[n \in 1..Len(vs) |-> vs[p[n]]] : p \in Permutations(1..Len(vs))}

\* C1: once main has stopped after starting the walk, every file of the walk
\* has exactly one outcome, in walk order, and a file that could not be read
\* has a FAILED outcome: no per-file failure aborts the batch.
C1_EveryFileYieldsOneOutcome ==
    pc \in {"done", "crashed"} =>
        /\ Len(outcomes) = Len(files)
        /\ \A i \in 1..Len(files) :
              /\ outcomes[i].file = files[i].file_name
              /\ (Supported(files[i]) /\ ~files[i].readable)
                     => outcomes[i].kind = "FAILED"

\* C2: a file whose script name is carried by more than one remote record
\* gets a FAILED outcome, never a comparison plan or a creation plan.
C2_AmbiguousRemoteMatchFails ==
    \A i \in Processed :
        Cardinality({k \in 1..Len(existing_scripts) :
                        existing_scripts[k].name = script_name_of(outcomes[i].file)}) > 1
            => outcomes[i].kind = "FAILED"

\* C3: the parameter entries of a comparison plan are exactly one ADD per
\* name that is only local, one REMOVE per name that is only remote, and,
\* for a name on both sides, one MODIFY listing exactly the differing
\* projected fields (before = remote, after = local) when the fields differ
\* and no entry when they are identical.
C3_EntriesAreExactlyTheDifferences ==
    \A i \in Compared :
        LET lv == normalize_vars(outcomes[i].local.scriptVariables)
            rv == normalize_vars(get(outcomes[i].remote, "scriptVariables", <<>>))
            es == outcomes[i].plan.entries
        IN  /\ \A k \in 1..Len(es) :
                  \/ es[k].kind = "ADD" /\ es[k].name \in NamesOf(lv) \ NamesOf(rv)
                  \/ es[k].kind = "REMOVE" /\ es[k].name \in NamesOf(rv) \ NamesOf(lv)
                  \/ es[k].kind = "MODIFY" /\ es[k].name \in NamesOf(lv) \cap NamesOf(rv)
            /\ \A name \in NamesOf(lv) \ NamesOf(rv) : Count(es, "ADD", name) = 1
            /\ \A name \in NamesOf(rv) \ NamesOf(lv) : Count(es, "REMOVE", name) = 1
            /\ \A name \in NamesOf(lv) \cap NamesOf(rv) :
                  \A l \in Named(lv, name), r \in Named(rv, name) :
                      IF lv[l] = rv[r]
                      THEN Count(es, "MODIFY", name) = 0
                      ELSE /\ Count(es, "MODIFY", name) = 1
                           /\ \A k \in 1..Len(es) :
                                 (es[k].kind = "MODIFY" /\ es[k].name = name) =>
                                     /\ {c.key : c \in Range(es[k].changes)}
                                            = DifferingKeys(lv[l], rv[r])
                                     /\ \A c \in Range(es[k].changes) :
                                           /\ c.before = py_str(c.key, rv[r][c.key])
                                           /\ c.after = py_str(c.key, lv[l][c.key])

\* The param blocks whose entries are of the shape [<type>]$<Name>, with the
\* name and the type the fixed map gives each entry.
DeclaredTypes ==
    ("param([int]$Count = 5)\n" :> <<<<"Count", "INTEGER">>>>)
    @@ ("Param ([Mandatory = $true][DateTime]$When, $Count = \"7\")\n"
            :> <<<<"When", "DATETIME">>, <<"Count", "TEXT">>>>)
    @@ ("param($Count, [switch]$Force)\n"
            :> <<<<"Count", "TEXT">>, <<"Force", "CHECKBOX">>>>)

\* C4: every declared parameter gets the type its bracketed type tag maps
\* to (TEXT without a tag); [int]$Count = 5 without a help entry yields
\* name Count, type INTEGER, defaultValue "5", required false and the
\* description "Variable Count".
C4_TypeTagResolvesType ==
    \A i \in Processed :
        extension_of(outcomes[i].file) = ".ps1" =>
            /\ \A p \in DOMAIN DeclaredTypes :
                  files[i].text \in TextsOf(OsLines, ArchLines, HelpBlocks, {p}, Bodies)
                      => [n \in 1..Len(outcomes[i].metadata.variables) |->
                             <<outcomes[i].metadata.variables[n].name,
                               outcomes[i].metadata.variables[n].type>>]
                           = DeclaredTypes[p]
            /\ files[i].text \in TextsOf(OsLines, ArchLines, {""},
                                         {"param([int]$Count = 5)\n"}, Bodies)
                  => outcomes[i].metadata.variables =
                        <<[name |-> "Count", description |-> "Variable Count",
                           type |-> "INTEGER", required |-> FALSE,
                           source |-> "LITERAL", defaultValue |-> "5"]>>

\* The param blocks with the names of their parameters and whether each
\* parameter's own attributes carry the mandatory marker.
DeclaredRequired ==
    ("param([int]$Count = 5)\n" :> <<<<"Count", FALSE>>>>)
    @@ ("param( [Parameter(Mandatory=$true)][string]$Target )\n"
            :> <<<<"Target", TRUE>>>>)
    @@ ("Param ([Mandatory = $true][DateTime]$When, $Count = \"7\")\n"
            :> <<<<"When", TRUE>>, <<"Count", FALSE>>>>)
    @@ ("param($Count, [switch]$Force)\n"
            :> <<<<"Count", FALSE>>, <<"Force", FALSE>>>>)

\* C5: param( [Parameter(Mandatory=$true)][string]$Target ) yields exactly
\* one variable, named Target, of type TEXT, required, without defaultValue;
\* and every declared parameter is required exactly when its own attribute
\* text carries the mandatory marker.
C5_MandatoryAttributeSetsRequired ==
    \A i \in Processed :
        extension_of(outcomes[i].file) = ".ps1" =>
            /\ \A p \in DOMAIN DeclaredRequired :
                  files[i].text \in TextsOf(OsLines, ArchLines, HelpBlocks, {p}, Bodies)
                      => [n \in 1..Len(outcomes[i].metadata.variables) |->
                             <<outcomes[i].metadata.variables[n].name,
                               outcomes[i].metadata.variables[n].required>>]
                           = DeclaredRequired[p]
            /\ files[i].text \in TextsOf(OsLines, ArchLines, HelpBlocks,
                   {"param( [Parameter(Mandatory=$true)][string]$Target )\n"}, Bodies)
                  => /\ Len(outcomes[i].metadata.variables) = 1
                     /\ outcomes[i].metadata.variables[1].type = "TEXT"
                     /\ "defaultValue" \notin DOMAIN outcomes[i].metadata.variables[1]

\* C6: the parsed variables, and the local record's scriptVariables built
\* from them, carry each parameter name at most once; when a name is
\* declared twice, the later declaration is the one represented.
C6_ParameterNamesAreUnique ==
    \A i \in Processed :
        /\ \A m, n \in 1..Len(outcomes[i].local.scriptVariables) :
              outcomes[i].local.scriptVariables[m].name
                  = outcomes[i].local.scriptVariables[n].name => m = n
        /\ \A m, n \in 1..Len(get(outcomes[i].metadata, "variables", <<>>)) :
              outcomes[i].metadata.variables[m].name
                  = outcomes[i].metadata.variables[n].name => m = n
        /\ files[i].text \in TextsOf(OsLines, ArchLines, HelpBlocks,
               {"param(\n  [string]$Target,\n  [bool]$Target = 'yes'\n)\n"}, Bodies)
              /\ extension_of(outcomes[i].file) = ".ps1"
              => /\ Len(outcomes[i].metadata.variables) = 1
                 /\ get(outcomes[i].metadata.variables[1], "defaultValue", NoneVal) = "yes"

\* The canonical operating systems each directive line of OsLines names.
DeclaredOs ==
    ("" :> <<>>)
    @@ ("# NINJA_OS: Linux, Windows\n" :> <<"Windows", "Linux">>)
    @@ ("# ninja_os: mac,FreeBSD , windows\n" :> <<"Windows", "Mac">>)
    @@ ("#NINJA_OS:LINUX\n\n" :> <<"Linux">>)

\* The canonical architectures each directive line of ArchLines names.
DeclaredArch ==
    ("" :> <<>>)
    @@ ("# NINJA_ARCH: amd64, x86\n" :> <<"32", "64">>)
    @@ ("# NINJA_ARCH: arm64\n" :> <<>>)

\* C7: the local record's operatingSystems is the canonical names of the
\* directive line's tokens that the map knows, in the order Windows, Mac,
\* Linux, whatever the tokens' order and case and whatever follows the
\* directive line; likewise architecture, in the order 32, 64.
C7_DirectiveLineDecidesTags ==
    \A i \in Processed :
        extension_of(outcomes[i].file) = ".ps1" =>
            /\ \A o \in DOMAIN DeclaredOs :
                  files[i].text \in TextsOf({o}, ArchLines, HelpBlocks, ParamBlocks, Bodies)
                      => outcomes[i].local.operatingSystems = DeclaredOs[o]
            /\ \A a \in DOMAIN DeclaredArch :
                  files[i].text \in TextsOf(OsLines, {a}, HelpBlocks, ParamBlocks, Bodies)
                      => outcomes[i].local.architecture = DeclaredArch[a]

\* C8: in a comparison plan the ADD and MODIFY entries are in ascending
\* order of name, so are the REMOVE entries, every REMOVE comes after every
\* ADD and MODIFY, and listing the variables of either side in another order
\* gives the same entries.
C8_EntryOrderDependsOnContentsOnly ==
    \A i \in Compared :
        LET es == outcomes[i].plan.entries
        IN  /\ \A m, n \in 1..Len(es) :
                  m < n =>
                      /\ es[m].kind = "REMOVE" => es[n].kind = "REMOVE"
                      /\ (es[m].kind = "REMOVE" <=> es[n].kind = "REMOVE")
                             => ~str_lt(Chars(es[n].name), Chars(es[m].name))
            /\ \A ls \in Reorderings(outcomes[i].local.scriptVariables),
                  rs \in Reorderings(get(outcomes[i].remote, "scriptVariables", <<>>)) :
                  log_change_plan(
                      [outcomes[i].local EXCEPT !.scriptVariables = ls],
                      [outcomes[i].remote EXCEPT !.scriptVariables = rs]).entries = es

\* C9: a comparison plan has no description block and no parameter entry
\* exactly when the two descriptions are equal and the two variable lists,
\* projected and sorted by name, are equal.
C9_EmptyPlanIffRecordsAgree ==
    \A i \in Compared :
        (outcomes[i].plan.description = <<>> /\ outcomes[i].plan.entries = <<>>)
            <=> /\ outcomes[i].local.description
                       = get(outcomes[i].remote, "description", NoneVal)
                /\ normalize_vars(outcomes[i].local.scriptVariables)
                       = normalize_vars(get(outcomes[i].remote, "scriptVariables", <<>>))

\* C10: a .sh, .bat or .cmd file never goes through the extractor: its local
\* record has the description "From <file name>" and no operating system,
\* architecture or variable, and its comparison plan has one REMOVE per
\* remote variable and no ADD or MODIFY.
C10_NonPowerShellHasNoMetadata ==
    \A i \in Processed :
        extension_of(outcomes[i].file) \in {".sh", ".bat", ".cmd"} =>
            /\ outcomes[i].metadata = <<>>
            /\ outcomes[i].local.description = "From " \o outcomes[i].file
            /\ outcomes[i].local.operatingSystems = <<>>
            /\ outcomes[i].local.architecture = <<>>
            /\ outcomes[i].local.scriptVariables = <<>>
            /\ outcomes[i].kind = "COMPARE" =>
                  LET rv == normalize_vars(get(outcomes[i].remote, "scriptVariables", <<>>))
                  IN  outcomes[i].plan.entries =
                          [n \in 1..Len(rv) |-> [kind |-> "REMOVE", name |-> rv[n].name]]

\* An annotated .sh or .cmd file has been compared with a remote record
\* that has variables, and the plan lists them as REMOVE.
C10_Witness ==
    \E i \in Compared :
        /\ extension_of(outcomes[i].file) \in {".sh", ".bat", ".cmd"}
        /\ files[i].text = Chars(AnnotatedText)
        /\ Len(outcomes[i].plan.entries) >= 2
        /\ outcomes[i].plan.entries[1].kind = "REMOVE"

====
